---- MODULE Spec2Model ----
(***************************************************************************)
(* Streaming chat exchange of the AI technical assistant: the chat         *)
(* endpoint (POST /api/chat), the conversation endpoints and the           *)
(* Conversation Store they share.                                          *)
(***************************************************************************)
EXTENDS Integers, Sequences, FiniteSets, TLC

(***************************************************************************)
(* Bounds of the model.                                                    *)
(***************************************************************************)
MaxReqs == 2
MaxDirectCreates == 1
MaxTextLen == 51
MaxTurns == 2
MaxLines == 2
MaxContext == 21

(***************************************************************************)
(* Program constants.                                                      *)
(***************************************************************************)
TitleLen == 50
ContextLimit == 20

Reqs == 1..MaxReqs

Users == {"u1", "u2"}
NoUser == "anonymous"
Callers == Users \cup {NoUser}

(***************************************************************************)
(* Strings are sequences of character codes.  Text(n) is a lower-case      *)
(* text of n characters.                                                   *)
(***************************************************************************)
Text(n) == [i \in 1..n |-> 97 + ((i - 1) % 26)]

EmptyText == <<>>

\* the literal 'New Conversation'
NewConversationTitle ==
    <<78, 101, 119, 32, 67, 111, 110, 118, 101, 114, 115, 97, 116, 105, 111, 110>>

\* String.prototype.slice(0, n)
Slice(s, n) == SubSeq(s, 1, IF n < Len(s) THEN n ELSE Len(s))

(***************************************************************************)
(* JSON texts.  A JSON value is a record: t is its kind, s the characters  *)
(* of a string or number, items the elements of an array or the member     *)
(* values of an object, keys the member names of an object.                *)
(***************************************************************************)
JValue(t, s, items, keys) == [t |-> t, s |-> s, items |-> items, keys |-> keys]

JUndefined == JValue("undefined", <<>>, <<>>, <<>>)
JString(s) == JValue("str", s, <<>>, <<>>)
JObject(keys, items) == JValue("obj", <<>>, items, keys)

\* the characters of the JSON grammar and the newline
Char ==
    [quote |-> 34, backslash |-> 92, newline |-> 10, comma |-> 44, colon |-> 58,
     openBracket |-> 91, closeBracket |-> 93, openBrace |-> 123,
     closeBrace |-> 125]

\* the member names, type names and texts of the messages: 'type', 'text',
\* 'image_url', 'image', 'url', 'file', 'textDelta', 'text-delta', 'finish',
\* 'id', 'delta', '[object Object]', '[Image]', 'mediaType' and 'image/png'
Word ==
    [ type |-> <<116, 121, 112, 101>>,
      text |-> <<116, 101, 120, 116>>,
      imageUrl |-> <<105, 109, 97, 103, 101, 95, 117, 114, 108>>,
      image |-> <<105, 109, 97, 103, 101>>,
      url |-> <<117, 114, 108>>,
      file |-> <<102, 105, 108, 101>>,
      textDelta |-> <<116, 101, 120, 116, 68, 101, 108, 116, 97>>,
      textDeltaType |-> <<116, 101, 120, 116, 45, 100, 101, 108, 116, 97>>,
      finish |-> <<102, 105, 110, 105, 115, 104>>,
      id |-> <<105, 100>>,
      delta |-> <<100, 101, 108, 116, 97>>,
      object |->
          <<91, 111, 98, 106, 101, 99, 116, 32, 79, 98, 106, 101, 99, 116, 93>>,
      imagePlaceholder |-> <<91, 73, 109, 97, 103, 101, 93>>,
      mediaType |-> <<109, 101, 100, 105, 97, 84, 121, 112, 101>>,
      imagePng |-> <<105, 109, 97, 103, 101, 47, 112, 110, 103>> ]

\* the prefixes '0:', 'data: ', 'data:image/', 'http://', 'https://',
\* 'data:image/jpeg;base64,' and 'data:'
Prefix ==
    [ payload |-> <<48, 58>>,
      sse |-> <<100, 97, 116, 97, 58, 32>>,
      dataImage |-> <<100, 97, 116, 97, 58, 105, 109, 97, 103, 101, 47>>,
      http |-> <<104, 116, 116, 112, 58, 47, 47>>,
      https |-> <<104, 116, 116, 112, 115, 58, 47, 47>>,
      jpeg |->
          <<100, 97, 116, 97, 58, 105, 109, 97, 103, 101, 47, 106, 112, 101, 103, 59,
            98, 97, 115, 101, 54, 52, 44>>,
      data |-> <<100, 97, 116, 97, 58>> ]

StartsWith(s, p) == Len(s) >= Len(p) /\ SubSeq(s, 1, Len(p)) = p

\* the characters of s from position i on
From(s, i) == SubSeq(s, i, Len(s))

\* the results of the parser: the value read and the position after it,
\* or the SyntaxError
ParseFailure == [ok |-> FALSE, v |-> JUndefined, next |-> 0]
Parsed(v, next) == [ok |-> TRUE, v |-> v, next |-> next]

\* the JSON value that starts at position i of s.  Of the escapes of a
\* string literal, those of the quote and the backslash are read.
RECURSIVE ParseValue(_, _), ParseElements(_, _, _), ParseMembers(_, _, _, _)
ParseValue(s, i) ==
    LET \* position j holds a character that no backslash escapes: the
        \* number of backslashes that directly precede it, after the
        \* opening quote, is even
        Unescaped(j) ==
            Cardinality({k \in 1..(j - i - 1) :
                            \A m \in (j - k)..(j - 1) : s[m] = Char.backslash}) % 2 = 0
        Closes(j) == s[j] = Char.quote /\ Unescaped(j)
        EscapeAt(m) == s[m] = Char.backslash /\ Unescaped(m)
        \* the string literal whose opening quote is at position i
        ParseChars ==
            IF ~\E j \in (i + 1)..Len(s) : Closes(j) THEN ParseFailure
            ELSE LET close == CHOOSE j \in (i + 1)..Len(s) :
                                 Closes(j) /\ \A k \in (i + 1)..(j - 1) : ~Closes(k)
                     Kept(m) == ~EscapeAt(m)
                     kept == SelectSeq([k \in 1..(close - i - 1) |-> i + k], Kept)
                 IN IF \A m \in (i + 1)..(close - 1) :
                          /\ s[m] >= 32
                          /\ EscapeAt(m) => s[m + 1] \in {Char.quote, Char.backslash}
                    THEN Parsed(JString([k \in 1..Len(kept) |-> s[kept[k]]]),
                                close + 1)
                    ELSE ParseFailure
        \* the digits from position i on
        ParseDigits ==
            LET stop == CHOOSE j \in (i + 1)..(Len(s) + 1) :
                            /\ j = Len(s) + 1 \/ s[j] \notin 48..57
                            /\ \A k \in i..(j - 1) : s[k] \in 48..57
            IN Parsed(JValue("num", SubSeq(s, i, stop - 1), <<>>, <<>>), stop)
    IN IF i > Len(s) THEN ParseFailure
       ELSE IF s[i] = Char.quote THEN ParseChars
       ELSE IF s[i] \in 48..57 THEN ParseDigits
       ELSE IF StartsWith(From(s, i), <<110, 117, 108, 108>>)
       THEN Parsed(JValue("null", <<>>, <<>>, <<>>), i + 4)
       ELSE IF s[i] = Char.openBracket
       THEN IF i + 1 <= Len(s) /\ s[i + 1] = Char.closeBracket
            THEN Parsed(JValue("arr", <<>>, <<>>, <<>>), i + 2)
            ELSE ParseElements(s, i + 1, <<>>)
       ELSE IF s[i] = Char.openBrace
       THEN IF i + 1 <= Len(s) /\ s[i + 1] = Char.closeBrace
            THEN Parsed(JObject(<<>>, <<>>), i + 2)
            ELSE ParseMembers(s, i + 1, <<>>, <<>>)
       ELSE ParseFailure

\* the elements of an array from position i on, after those of acc
ParseElements(s, i, acc) ==
    LET r == ParseValue(s, i)
    IN IF ~r.ok \/ r.next > Len(s) THEN ParseFailure
       ELSE IF s[r.next] = Char.comma
       THEN ParseElements(s, r.next + 1, Append(acc, r.v))
       ELSE IF s[r.next] = Char.closeBracket
       THEN Parsed(JValue("arr", <<>>, Append(acc, r.v), <<>>), r.next + 1)
       ELSE ParseFailure

\* the members of an object from position i on, after those of keys and acc
ParseMembers(s, i, keys, acc) ==
    IF i > Len(s) \/ s[i] # Char.quote THEN ParseFailure
    ELSE LET k == ParseValue(s, i)
         IN IF ~k.ok \/ k.next > Len(s) \/ s[k.next] # Char.colon
            THEN ParseFailure
            ELSE LET r == ParseValue(s, k.next + 1)
                 IN IF ~r.ok \/ r.next > Len(s) THEN ParseFailure
                    ELSE IF s[r.next] = Char.comma
                    THEN ParseMembers(s, r.next + 1, Append(keys, k.v.s),
                                      Append(acc, r.v))
                    ELSE IF s[r.next] = Char.closeBrace
                    THEN Parsed(JObject(Append(keys, k.v.s), Append(acc, r.v)),
                                r.next + 1)
                    ELSE ParseFailure

\* JSON.parse of a text without insignificant white space: ok is FALSE
\* where it throws a SyntaxError
JsonParse(s) ==
    LET parsed == ParseValue(s, 1)
    IN IF parsed.ok /\ parsed.next = Len(s) + 1 THEN parsed ELSE ParseFailure

\* v[key] of JavaScript, for a value that is not null
Get(v, key) ==
    IF v.t = "obj" /\ \E i \in 1..Len(v.keys) : v.keys[i] = key
    THEN LET last == CHOOSE i \in 1..Len(v.keys) :
                        /\ v.keys[i] = key
                        /\ \A j \in (i + 1)..Len(v.keys) : v.keys[j] # key
         IN v.items[last]
    ELSE JUndefined

\* truthiness of a JavaScript value
JTruthy(v) ==
    CASE v.t \in {"null", "undefined"} -> FALSE
      [] v.t = "str" -> v.s # <<>>
      [] v.t = "num" -> v.s # <<48>>
      [] OTHER -> TRUE

\* the concatenation of a sequence of sequences
RECURSIVE Flatten(_)
Flatten(ss) ==
    IF ss = <<>> THEN <<>>
    ELSE IF Len(ss) = 1 THEN ss[1]
    ELSE LET half == Len(ss) \div 2
         IN Flatten(SubSeq(ss, 1, half)) \o Flatten(SubSeq(ss, half + 1, Len(ss)))

\* the escaping JSON.stringify applies inside a string literal
Escape(s) ==
    Flatten([i \in 1..Len(s) |->
                IF s[i] \in {Char.quote, Char.backslash} THEN <<Char.backslash, s[i]>>
                ELSE <<s[i]>>])

\* String.prototype.split on one separator character
Split(s, sep) ==
    LET IsSep(i) == s[i] = sep
        seps == SelectSeq([i \in 1..Len(s) |-> i], IsSep)
        First(k) == IF k = 1 THEN 1 ELSE seps[k - 1] + 1
        Last(k) == IF k = Len(seps) + 1 THEN Len(s) ELSE seps[k] - 1
    IN [k \in 1..(Len(seps) + 1) |-> SubSeq(s, First(k), Last(k))]

(***************************************************************************)
(* Message parts and turns as they arrive in the request body.             *)
(***************************************************************************)
\* 'data:image/png;base64,AAAA'
DataUri ==
    <<100, 97, 116, 97, 58, 105, 109, 97, 103, 101, 47, 112, 110, 103, 59, 98,
      97, 115, 101, 54, 52, 44, 65, 65, 65, 65>>
\* 'https://example.org/a.png'
HttpUrl ==
    <<104, 116, 116, 112, 115, 58, 47, 47, 101, 120, 97, 109, 112, 108, 101, 46,
      111, 114, 103, 47, 97, 46, 112, 110, 103>>
\* 'blob:http://localhost/1'
BlobUrl ==
    <<98, 108, 111, 98, 58, 104, 116, 116, 112, 58, 47, 47, 108, 111, 99, 97,
      108, 104, 111, 115, 116, 47, 49>>
\* 'not-an-image'
JunkImage == <<110, 111, 116, 45, 97, 110, 45, 105, 109, 97, 103, 101>>

\* a field that is absent, null or ''
NoUrl == <<>>

TextPart(t) == [type |-> "text", text |-> t, image |-> NoUrl, url |-> NoUrl]
ImagePart(u) == [type |-> "image", text |-> EmptyText, image |-> u, url |-> NoUrl]
FilePart(u) == [type |-> "file", text |-> EmptyText, image |-> NoUrl, url |-> u]
ImageUrlPart(u) ==
    [type |-> "image_url", text |-> EmptyText, image |-> NoUrl, url |-> u]

NoContent == [kind |-> "undefined", text |-> EmptyText, parts |-> <<>>]
StringContent(t) == [kind |-> "string", text |-> t, parts |-> <<>>]
ArrayContent(ps) == [kind |-> "array", text |-> EmptyText, parts |-> ps]

\* a UI message { role, parts }
UITurn(role, ps) ==
    [role |-> role, hasParts |-> TRUE, parts |-> ps, content |-> NoContent]
\* a message already in model format { role, content }
ModelTurn(role, c) ==
    [role |-> role, hasParts |-> FALSE, parts |-> <<>>, content |-> c]

(***************************************************************************)
(* convertToModelMessages of the AI SDK, as the route uses it.  A list of  *)
(* UI messages (known role, parts array) is converted.  A message with an  *)
(* unsupported role, or a user or system message without parts, makes it   *)
(* throw, and the route falls back to the messages as they came.  An       *)
(* assistant message without parts is skipped or makes it throw, by the    *)
(* version of the SDK.                                                     *)
(***************************************************************************)
Skipped(m) == m.role = "assistant" /\ ~m.hasParts

Convertible(m) ==
    /\ m.role \in {"system", "user", "assistant"}
    /\ m.hasParts \/ Skipped(m)

RECURSIVE JoinText(_)
JoinText(ps) ==
    IF ps = <<>> THEN EmptyText
    ELSE (IF Head(ps).type = "text" THEN Head(ps).text ELSE EmptyText)
         \o JoinText(Tail(ps))

ConversionThrows(ms) == \E i \in 1..Len(ms) : ~Convertible(ms[i])

ConversionMayThrow(ms) ==
    ConversionThrows(ms) \/ \E i \in 1..Len(ms) : Skipped(ms[i])

ConvertToModelMessages(ms) ==
    LET NotSkipped(m) == ~Skipped(m)
        IsModelPart(p) == p.type \in {"text", "file"}
        ConvertOne(m) ==
            IF m.role = "system"
            THEN ModelTurn("system", StringContent(JoinText(m.parts)))
            ELSE ModelTurn(m.role, ArrayContent(SelectSeq(m.parts, IsModelPart)))
        kept == SelectSeq(ms, NotSkipped)
    IN [i \in 1..Len(kept) |-> ConvertOne(kept[i])]

\* try { convertToModelMessages(messages) } catch { messages }
ConvertedMessages(ms) ==
    (IF ConversionThrows(ms) THEN {} ELSE {ConvertToModelMessages(ms)})
    \cup (IF ConversionMayThrow(ms) THEN {ms} ELSE {})

\* a filter that keeps every message
HasRoleAny(m) == TRUE

\* msg != null && msg.role
HasRole(m) == m.role # "none"

ValidMessages(convertedMessages) == SelectSeq(convertedMessages, HasRole)

(***************************************************************************)
(* Title of a conversation created by the chat endpoint.                   *)
(***************************************************************************)
IsUserTurn(m) == m.role = "user"

IsTextPart(p) == p.type = "text"

\* validMessages.filter(m => m.role === 'user').pop()
HasUserMessage(valid) == SelectSeq(valid, IsUserTurn) # <<>>

LastUserMessage(valid) ==
    LET us == SelectSeq(valid, IsUserTurn) IN us[Len(us)]

TitleFromContent(c) ==
    IF c.kind = "string" THEN Slice(c.text, TitleLen)
    ELSE IF c.kind = "array"
    THEN LET ts == SelectSeq(c.parts, IsTextPart) IN
         IF ts # <<>> /\ ts[1].text # EmptyText
         THEN Slice(ts[1].text, TitleLen)
         ELSE NewConversationTitle
    ELSE NewConversationTitle

GeneratedTitle(valid) ==
    LET title == IF HasUserMessage(valid)
                 THEN TitleFromContent(LastUserMessage(valid).content)
                 ELSE NewConversationTitle
    IN IF Len(title) > TitleLen THEN Slice(title, TitleLen) ELSE title

(***************************************************************************)
(* convertImageToBase64 on string inputs: NoUrl stands for null.           *)
(***************************************************************************)

Base64MinLen == 100

\* a conversion that takes every input for raw base64
ConvertImageAsJpeg(s) == IF s = NoUrl THEN NoUrl ELSE Prefix.jpeg \o s

ConvertImageToBase64(s) ==
    LET \* /^[A-Za-z0-9+/=]+$/
        IsBase64 ==
            /\ s # <<>>
            /\ \A i \in 1..Len(s) :
                  s[i] \in (65..90) \cup (97..122) \cup (48..57) \cup {43, 47, 61}
    IN IF StartsWith(s, Prefix.dataImage) THEN s
       ELSE IF StartsWith(s, Prefix.http) \/ StartsWith(s, Prefix.https) THEN s
       ELSE IF Len(s) > Base64MinLen /\ IsBase64 THEN Prefix.jpeg \o s
       ELSE NoUrl

(***************************************************************************)
(* The content of the user message the chat endpoint saves.                *)
(***************************************************************************)
\* part.url || part.image || part.data || part.src
ImageData(p) == IF p.url # NoUrl THEN p.url ELSE p.image

OriginalHasImages(m) ==
    /\ m.hasParts
    /\ \E i \in 1..Len(m.parts) :
          \/ m.parts[i].type = "image" /\ m.parts[i].image # NoUrl
          \/ m.parts[i].type = "file" /\ m.parts[i].url # NoUrl

ContentForSaving(m) ==
    LET \* a part that survives contentForSaving.filter(Boolean)
        Saveable(p) ==
            \/ p.type = "text"
            \/ /\ p.type \in {"image", "file"}
               /\ ImageData(p) # NoUrl
               /\ ConvertImageToBase64(ImageData(p)) # NoUrl
        SavedPart(p) ==
            IF p.type = "text" THEN TextPart(p.text)
            ELSE ImageUrlPart(ConvertImageToBase64(ImageData(p)))
        kept == SelectSeq(m.parts, Saveable)
    IN [i \in 1..Len(kept) |-> SavedPart(kept[i])]

\* the stored string: a bare string, or the JSON text of a part array
JsonContent(ps) == [kind |-> "json", text |-> EmptyText, parts |-> ps]

EmptyString == StringContent(EmptyText)

\* truthiness of the stored string
Truthy(c) == c.kind = "json" \/ c.text # EmptyText

UserMessageContent(messages, valid) ==
    IF valid = <<>> \/ valid[Len(valid)].role # "user" THEN EmptyString
    ELSE LET lastOriginalMessage == messages[Len(messages)]
             lastProcessedMessage == valid[Len(valid)]
         IN IF /\ OriginalHasImages(lastOriginalMessage)
               /\ ContentForSaving(lastOriginalMessage) # <<>>
            THEN JsonContent(ContentForSaving(lastOriginalMessage))
            ELSE LET c == lastProcessedMessage.content
                 IN IF c.kind = "string" THEN c
                    ELSE IF c.kind = "array" THEN JsonContent(c.parts)
                    ELSE EmptyString

(***************************************************************************)
(* Request bodies.                                                         *)
(***************************************************************************)
NullBody == [kind |-> "null", arr |-> <<>>]
MissingBody == [kind |-> "missing", arr |-> <<>>]
NotArrayBody == [kind |-> "notArray", arr |-> <<>>]
ArrayBody(ms) == [kind |-> "array", arr |-> ms]

\* the id of a conversation that was never issued
UnknownId == -1

(***************************************************************************)
(* The stored form of a message content and its expansion by the history   *)
(* endpoint.                                                               *)
(***************************************************************************)

StringifyString(s) == <<Char.quote>> \o Escape(s) \o <<Char.quote>>

\* a member of an object literal whose value is the string text
StringifyMember(key, text) ==
    StringifyString(key) \o <<Char.colon>> \o StringifyString(text)

\* JSON.stringify of a content array
StringifyParts(ps) ==
    LET StringifyPart(p) ==
            <<Char.openBrace>>
            \o StringifyMember(Word.type,
                               CASE p.type = "text" -> Word.text
                                 [] p.type = "image_url" -> Word.imageUrl
                                 [] p.type = "image" -> Word.image
                                 [] OTHER -> Word.file)
            \o <<Char.comma>>
            \o (CASE p.type = "text" -> StringifyMember(Word.text, p.text)
                  [] p.type = "image_url" ->
                        StringifyString(Word.imageUrl) \o <<Char.colon>>
                        \o <<Char.openBrace>> \o StringifyMember(Word.url, p.url)
                        \o <<Char.closeBrace>>
                  [] p.type = "image" -> StringifyMember(Word.image, p.image)
                  [] OTHER -> StringifyMember(Word.url, p.url))
            \o <<Char.closeBrace>>
    IN <<Char.openBracket>>
       \o Flatten([i \in 1..Len(ps) |->
                      (IF i = 1 THEN <<>> ELSE <<Char.comma>>)
                      \o StringifyPart(ps[i])])
       \o <<Char.closeBracket>>

\* the characters written to the content column
StoredText(c) == IF c.kind = "json" THEN StringifyParts(c.parts) ELSE c.text

JTextPart(text) == JObject(<<Word.type, Word.text>>, <<JString(Word.text), text>>)

JImageUrlPart(url) ==
    JObject(<<Word.type, Word.imageUrl>>,
            <<JString(Word.imageUrl), JObject(<<Word.url>>, <<url>>)>>)

Or(a, b) == IF JTruthy(a) THEN a ELSE b

\* part.image_url?.url
ImageUrlOf(part) ==
    IF Get(part, Word.imageUrl).t \in {"null", "undefined"} THEN JUndefined
    ELSE Get(Get(part, Word.imageUrl), Word.url)

\* the mapping of one element of a parsed content array
ExpandPart(part) ==
    IF Get(part, Word.type) = JString(Word.text)
    THEN JTextPart(Or(Get(part, Word.text), JString(<<>>)))
    ELSE IF Get(part, Word.type) = JString(Word.imageUrl) /\ JTruthy(ImageUrlOf(part))
    THEN JImageUrlPart(ImageUrlOf(part))
    ELSE IF /\ Get(part, Word.type) = JString(Word.image)
            /\ JTruthy(Or(Get(part, Word.image), Get(part, Word.url)))
    THEN JImageUrlPart(Or(Get(part, Word.image), Get(part, Word.url)))
    ELSE part

\* the content list the history endpoint returns for a stored text
ExpandContent(content) ==
    IF content = <<>> THEN <<JTextPart(JString(<<>>))>>
    ELSE IF content[1] \notin {Char.openBracket, Char.openBrace}
    THEN <<JTextPart(JString(content))>>
    ELSE LET parsedContent == JsonParse(content)
         IN IF /\ parsedContent.ok
               /\ parsedContent.v.t = "arr"
               \* part.type of a null element throws a TypeError
               /\ \A i \in 1..Len(parsedContent.v.items) :
                     parsedContent.v.items[i].t # "null"
            THEN [i \in 1..Len(parsedContent.v.items) |->
                     ExpandPart(parsedContent.v.items[i])]
            ELSE <<JTextPart(JString(content))>>

IsJTextPart(part) == Get(part, Word.type) = JString(Word.text)

(***************************************************************************)
(* The lines of a streamed response body, and the handling of one read     *)
(* chunk by the read loop of the client.                                   *)
(***************************************************************************)

\* a line of a body: a text delta of the data stream protocol ("delta"), a
\* text delta as a server-sent event ("sse"), a finish part ("finish"), a
\* truncated text delta ("broken") or an empty line ("blank")
Line(kind, text) == [kind |-> kind, text |-> text]

\* the body of the lines ls: each line ends with a newline
EncodeLines(ls) ==
    LET EncodeLine(l) ==
            CASE l.kind = "delta" ->
                    Prefix.payload \o <<Char.openBrace>>
                    \o StringifyMember(Word.type, Word.textDeltaType)
                    \o <<Char.comma>>
                    \o StringifyMember(Word.textDelta, l.text)
                    \o <<Char.closeBrace>>
              [] l.kind = "sse" ->
                    Prefix.sse \o <<Char.openBrace>>
                    \o StringifyMember(Word.type, Word.textDeltaType)
                    \o <<Char.comma>>
                    \o StringifyMember(Word.id, <<48>>)
                    \o <<Char.comma>>
                    \o StringifyMember(Word.delta, l.text)
                    \o <<Char.closeBrace>>
              [] l.kind = "finish" ->
                    Prefix.payload \o <<Char.openBrace>>
                    \o StringifyMember(Word.type, Word.finish)
                    \o <<Char.closeBrace>>
              [] l.kind = "broken" ->
                    Prefix.payload \o <<Char.openBrace>>
                    \o StringifyMember(Word.type, Word.textDeltaType)
              [] OTHER -> <<>>
    IN Flatten([i \in 1..Len(ls) |-> EncodeLine(ls[i]) \o <<Char.newline>>])

\* String(v) for the values a text delta can hold
JToString(v) ==
    CASE v.t \in {"str", "num"} -> v.s
      [] v.t = "obj" -> Word.object
      [] OTHER -> <<>>

\* chunk.split('\n') and the loop over the lines
RECURSIVE ConsumeChunk(_, _)
ConsumeChunk(assistantMessage, chunk) ==
    LET lines == Split(chunk, Char.newline)
        \* the body of the loop: the message after the line
        HandleLine(message, line) ==
            IF ~StartsWith(line, Prefix.payload) THEN message
            ELSE LET data == JsonParse(From(line, Len(Prefix.payload) + 1))
                 IN IF ~data.ok \/ data.v.t = "null" THEN message
                    ELSE IF /\ Get(data.v, Word.type) = JString(Word.textDeltaType)
                            /\ JTruthy(Get(data.v, Word.textDelta))
                    THEN message \o JToString(Get(data.v, Word.textDelta))
                    ELSE message
    IN IF Len(lines) = 1 THEN HandleLine(assistantMessage, lines[1])
       ELSE ConsumeChunk(HandleLine(assistantMessage, lines[1]),
                         From(chunk, Len(lines[1]) + 2))

(***************************************************************************)
(* The transcript of the chat view and the request it builds.              *)
(***************************************************************************)

\* !s.trim(): of the white space, the tab, the line ends and the space
IsBlank(s) == \A i \in 1..Len(s) : s[i] \in {9, 10, 13, 32}

\* String.prototype.trim
Trim(s) ==
    IF IsBlank(s) THEN <<>>
    ELSE LET first == CHOOSE i \in 1..Len(s) :
                         /\ ~IsBlank(<<s[i]>>)
                         /\ IsBlank(SubSeq(s, 1, i - 1))
             last == CHOOSE i \in 1..Len(s) :
                        /\ ~IsBlank(<<s[i]>>)
                        /\ IsBlank(SubSeq(s, i + 1, Len(s)))
         IN SubSeq(s, first, last)

\* the id of a message: the key n of the message table ("db"),
\* `temp-${Date.now()}` ("temp") or `temp-assistant-${Date.now()}`
\* ("temp-assistant") of submission n
Id(kind, n) == [kind |-> kind, n |-> n]

Message(id, role, content, images) ==
    [id |-> id, role |-> role, content |-> content, images |-> images]

\* msg.id.startsWith('temp-')
IsTemp(m) == m.id.kind \in {"temp", "temp-assistant"}

\* m.id.startsWith('temp-assistant') && m.role === 'assistant'
IsTempAssistant(m) == m.id.kind = "temp-assistant" /\ m.role = "assistant"

TempUserMessage(n, userMessage, imagesToSend) ==
    Message(Id("temp", n), "user",
            IF userMessage # <<>> THEN userMessage
            ELSE IF imagesToSend # <<>> THEN Word.imagePlaceholder ELSE <<>>,
            imagesToSend)

ImageParts(images) == [i \in 1..Len(images) |-> ImagePart(images[i])]

\* parts.length === 0 || parts.every(p => p.type === 'image')
OnlyImages(parts) == \A i \in 1..Len(parts) : parts[i].type = "image"

\* the parts of the new message
BuildParts(userMessage, imagesToSend) ==
    LET parts == (IF ~IsBlank(userMessage) THEN <<TextPart(userMessage)>> ELSE <<>>)
                 \o ImageParts(imagesToSend)
    IN IF OnlyImages(parts) THEN <<TextPart(userMessage)>> \o parts ELSE parts

\* a message of the transcript in the format of the chat endpoint
HistoryMessage(msg) ==
    IF msg.role = "assistant"
    THEN ModelTurn("assistant", StringContent(msg.content))
    ELSE LET parts ==
                 (IF ~IsBlank(msg.content) /\ msg.content # Word.imagePlaceholder
                  THEN <<TextPart(msg.content)>> ELSE <<>>)
                 \o ImageParts(msg.images)
         IN UITurn("user", IF OnlyImages(parts)
                           THEN <<TextPart(msg.content)>> \o parts
                           ELSE parts)

\* allMessages: the history without temporary messages, then the new message
AllMessages(messages, userMessage, imagesToSend) ==
    LET NotTemp(m) == ~IsTemp(m)
        kept == SelectSeq(messages, NotTemp)
    IN [i \in 1..Len(kept) |-> HistoryMessage(kept[i])]
       \o <<UITurn("user", BuildParts(userMessage, imagesToSend))>>

\* loadConversation: the messages of the response as transcript messages
TransformMessages(ms) ==
    LET \* part.image_url?.url || part.image || part.url of an image part
        ImageOfPart(part) ==
            IF /\ Get(part, Word.type) = JString(Word.imageUrl)
               /\ JTruthy(ImageUrlOf(part))
            THEN ImageUrlOf(part)
            ELSE IF /\ Get(part, Word.type) = JString(Word.image)
                    /\ JTruthy(Or(Get(part, Word.image), Get(part, Word.url)))
            THEN Or(ImageUrlOf(part),
                    Or(Get(part, Word.image), Get(part, Word.url)))
            ELSE JUndefined
        HasImage(part) == ImageOfPart(part) # JUndefined
        TransformMessage(msg) ==
            LET imageParts == SelectSeq(msg.content, HasImage)
                textParts == SelectSeq(msg.content, IsJTextPart)
                text == IF textParts = <<>> THEN JUndefined
                        ELSE Get(textParts[1], Word.text)
            IN Message(Id("db", msg.id), msg.role,
                       IF JTruthy(text) THEN JToString(text) ELSE <<>>,
                       [i \in 1..Len(imageParts) |->
                           JToString(ImageOfPart(imageParts[i]))])
    IN [i \in 1..Len(ms) |-> TransformMessage(ms[i])]

\* loadConversationHistory of the assistant view: the messages of a
\* response of the history endpoint, whose content is an array, in the
\* format of the runtime; a message without parts is left out
FormattedMessages(ms) ==
    LET \* a file part of the runtime for an image URL
        FileOf(imageUrl) ==
            LET url == JToString(imageUrl)
                semicolons == {i \in 1..Len(url) : url[i] = 59}
                \* imageUrl.substring(5, imageUrl.indexOf(';'))
                mediaType ==
                    IF ~StartsWith(url, Prefix.data) THEN Word.imagePng
                    ELSE IF semicolons = {} THEN SubSeq(url, 1, 5)
                    ELSE LET first == CHOOSE i \in semicolons :
                                         \A j \in semicolons : i <= j
                         IN SubSeq(url, 6, first - 1)
            IN JObject(<<Word.type, Word.url, Word.mediaType>>,
                       <<JString(Word.file), imageUrl, JString(mediaType)>>)
        \* what the loop over contentArray pushes for one part
        Pushed(part) ==
            IF /\ Get(part, Word.type) = JString(Word.text)
               /\ Get(part, Word.text) # JUndefined
            THEN IF Trim(JToString(Get(part, Word.text))) # <<>>
                 THEN <<JTextPart(JString(Trim(JToString(Get(part, Word.text)))))>>
                 ELSE <<>>
            ELSE IF /\ Get(part, Word.type) = JString(Word.imageUrl)
                    /\ JTruthy(ImageUrlOf(part))
            THEN <<FileOf(ImageUrlOf(part))>>
            ELSE IF /\ Get(part, Word.type) = JString(Word.image)
                    /\ JTruthy(Or(Get(part, Word.image), Get(part, Word.url)))
            THEN <<FileOf(Or(Get(part, Word.image), Get(part, Word.url)))>>
            ELSE IF /\ Get(part, Word.type) = JString(Word.file)
                    /\ JTruthy(Get(part, Word.url))
            THEN <<part>>
            ELSE <<>>
        Format(msg) ==
            [id |-> msg.id, role |-> msg.role,
             parts |-> Flatten([i \in 1..Len(msg.content) |->
                                   Pushed(msg.content[i])])]
        HasParts(m) == m.parts # <<>>
    IN SelectSeq([i \in 1..Len(ms) |-> Format(ms[i])], HasParts)

\* the setMessages updater of a text delta
ShowAssistant(messages, assistantMessage, n) ==
    IF messages # <<>> /\ IsTempAssistant(messages[Len(messages)])
    THEN [messages EXCEPT ![Len(messages)].content = assistantMessage]
    ELSE Append(messages,
                Message(Id("temp-assistant", n), "assistant", assistantMessage, <<>>))

\* the clean-up of the outer catch
DiscardTemporary(messages, n) ==
    LET Keep(m) == m.id # Id("temp", n) /\ ~IsTempAssistant(m)
    IN SelectSeq(messages, Keep)

(***************************************************************************)
(* State.                                                                  *)
(*   convs  the conversation table, indexed by id; updatedAt counts the    *)
(*          bumps of the last-activity time                                *)
(*   msgs   the message table in creation order                            *)
(*   req    the chat requests: position, locals and response               *)
(*   directCreates  number of POST /api/conversations calls served         *)
(*   stream the response bodies of the chat requests: the lines written    *)
(*          and the characters not yet read by the client                  *)
(*   view   the state of the chat view: selected conversation, transcript, *)
(*          pending flag, what the last render showed, alerts raised       *)
(*   sub    the submissions of the chat view: position and locals of       *)
(*          handleSubmit; submission r is carried by chat request r        *)
(*   load   the conversations whose history load, started by a change of   *)
(*          the selected conversation, is in flight                        *)
(*   lastRead  the last response of a conversation endpoint                *)
(***************************************************************************)
VARIABLES convs, msgs, req, directCreates, stream, view, sub, load, lastRead

front == <<stream, view, sub, load>>

vars == <<convs, msgs, req, directCreates, stream, view, sub, load, lastRead>>

Shown(v) ==
    [conversationId |-> v.conversationId, messages |-> v.messages,
     isLoading |-> v.isLoading]

IdleReq ==
    [pc |-> "idle", user |-> NoUser, body |-> MissingBody, conversationId |-> 0,
     validMessages |-> <<>>, conversation |-> 0,
     status |-> 0, header |-> 0,
     looked |-> FALSE, created |-> 0, modelInvoked |-> FALSE,
     modelMessages |-> <<>>, modelName |-> "none",
     userWrite |-> "none", userMessageContent |-> EmptyString,
     stream |-> "none", text |-> EmptyText,
     assistantWrite |-> "none", touch |-> "none"]

Init ==
    /\ convs = <<>>
    /\ msgs = <<>>
    /\ req = [r \in Reqs |-> IdleReq]
    /\ directCreates = 0
    /\ stream = [r \in Reqs |-> [lines |-> <<>>, rest |-> <<>>, closed |-> FALSE]]
    /\ view = [conversationId |-> 0, messages |-> <<>>, isLoading |-> FALSE,
               rendered |-> [conversationId |-> 0, messages |-> <<>>,
                             isLoading |-> FALSE],
               alerts |-> 0]
    /\ sub = [r \in Reqs |->
                [pc |-> "idle", conversationId |-> 0, allMessages |-> <<>>,
                 before |-> <<>>, newConversationId |-> 0,
                 assistantMessage |-> EmptyText, reader |-> "none",
                 outcome |-> "none"]]
    /\ load = {}
    /\ lastRead = [kind |-> "none", user |-> NoUser, id |-> 0, status |-> 0,
                   conversations |-> <<>>, messages |-> <<>>, convCount |-> 0]

Exists(id) == id \in 1..Len(convs) /\ convs[id].alive

\* a lookup by id alone, without the owner
FindById(id, u) == IF Exists(id) THEN id ELSE 0

\* prisma.conversation.findFirst({ where: { id, userId } })
FindOwned(id, u) == IF Exists(id) /\ convs[id].owner = u THEN id ELSE 0

NewConversation(u, title) ==
    [owner |-> u, title |-> title, alive |-> TRUE,
     updatedAt |-> 0]

NewMessage(id, role, content, r) ==
    [conversationId |-> id, role |-> role, content |-> content, req |-> r]

\* a handler that lets every caller through
AuthenticatedAlways(u) == TRUE

\* requireAuth: throws 'Unauthorized' when there is no session user
Authenticated(u) == u # NoUser

\* a check of !messages alone
MessagesNotMissing(b) == b.kind # "missing"

\* !messages || !Array.isArray(messages)
MessagesIsArray(b) == b.kind = "array"

\* a header that echoes the id the client sent
ConversationHeaderEcho(q) ==
    IF q.conversationId = 0 THEN q.conversation ELSE q.conversationId

\* the X-Conversation-Id header: set only if a conversation is held
ConversationHeader(q) == q.conversation

(***************************************************************************)
(* POST /api/chat up to the conversation lookup.                           *)
(***************************************************************************)
Begin(r, u, b, cid) ==
    /\ req[r].pc = "idle"
    /\ \A p \in Reqs : p < r => req[p].pc # "idle"
    /\ IF ~Authenticated(u)
       THEN \* requireAuth throws 'Unauthorized' before the body is read
            req' = [req EXCEPT ![r].pc = "done", ![r].status = 401]
       ELSE LET q == [req[r] EXCEPT !.user = u, !.body = b, !.conversationId = cid]
            IN IF b.kind = "null"
               THEN \* destructuring null throws a TypeError
                    req' = [req EXCEPT ![r] = [q EXCEPT !.pc = "done", !.status = 500]]
               ELSE IF ~MessagesIsArray(b)
               THEN req' = [req EXCEPT ![r] = [q EXCEPT !.pc = "done", !.status = 400]]
               ELSE \E convertedMessages \in ConvertedMessages(b.arr) :
                      req' = [req EXCEPT ![r] =
                                [q EXCEPT !.pc = "resolved",
                                          !.validMessages =
                                              ValidMessages(convertedMessages),
                                          !.looked = (cid # 0),
                                          !.conversation =
                                              IF cid # 0 THEN FindOwned(cid, u)
                                              ELSE 0]]
    /\ UNCHANGED <<convs, msgs, directCreates, front, lastRead>>

NeedsConversation(q) == q.conversation = 0 /\ Len(q.validMessages) > 0

(***************************************************************************)
(* await prisma.conversation.create: a rejection reaches the outer catch.  *)
(***************************************************************************)
CreateConversation(r) ==
    /\ req[r].pc = "resolved"
    /\ NeedsConversation(req[r])
    /\ \/ /\ convs' = Append(convs,
                 NewConversation(req[r].user, GeneratedTitle(req[r].validMessages)))
          /\ req' = [req EXCEPT ![r].pc = "ready",
                                ![r].conversation = Len(convs) + 1,
                                ![r].created = Len(convs) + 1]
       \/ /\ req' = [req EXCEPT ![r].pc = "done", ![r].status = 500]
          /\ UNCHANGED convs
    /\ UNCHANGED <<msgs, directCreates, front, lastRead>>

(***************************************************************************)
(* The rest of the handler: issue the user message write without awaiting  *)
(* it, call streamText and return the response.                            *)
(***************************************************************************)
IssueUserWrite(q) ==
    LET content == UserMessageContent(q.body.arr, q.validMessages)
    IN IF q.conversation # 0 /\ Truthy(content)
       THEN [q EXCEPT !.userWrite = "pending", !.userMessageContent = content]
       ELSE q

\* the messages that follow the system prompt in the call of the model:
\* the valid messages without the system messages of the client
ModelMessages(valid) ==
    LET NotSystem(m) == m.role # "system" IN SelectSeq(valid, NotSystem)

\* hasImagesInAnyMessage ? "gpt-4o" : "gpt-4o-mini"
ModelName(allMessages) ==
    LET HasImageUrl(msg) ==
            /\ msg.content.kind = "array"
            /\ \E i \in 1..Len(msg.content.parts) :
                  /\ msg.content.parts[i].type = "image_url"
                  /\ msg.content.parts[i].url # NoUrl
    IN IF \E i \in 1..Len(allMessages) : HasImageUrl(allMessages[i])
       THEN "gpt-4o" ELSE "gpt-4o-mini"

StreamText(r) ==
    /\ \/ req[r].pc = "ready"
       \/ req[r].pc = "resolved" /\ ~NeedsConversation(req[r])
    /\ LET q == [IssueUserWrite(req[r]) EXCEPT
                   !.modelInvoked = TRUE,
                   !.modelMessages = ModelMessages(req[r].validMessages),
                   !.modelName = ModelName(ModelMessages(req[r].validMessages))]
       IN \/ req' = [req EXCEPT ![r] =
                       [q EXCEPT !.pc = "streaming", !.status = 200,
                                 !.header = ConversationHeader(q), !.stream = "open"]]
          \/ req' = [req EXCEPT ![r] = [q EXCEPT !.pc = "done", !.status = 500]]
    /\ UNCHANGED <<convs, msgs, directCreates, front, lastRead>>

\* a user message write whose rejection ends the request with an error
UserWriteAwaited(r) ==
    /\ req[r].userWrite = "pending"
    /\ \/ /\ Exists(req[r].conversation)
          /\ msgs' = Append(msgs, NewMessage(req[r].conversation, "user",
                                             req[r].userMessageContent, r))
          /\ req' = [req EXCEPT ![r].userWrite = "saved"]
       \/ /\ req' = [req EXCEPT ![r].userWrite = "failed", ![r].pc = "done",
                                ![r].status = 500,
                                ![r].stream = IF @ = "open" THEN "aborted" ELSE @]
          /\ UNCHANGED msgs
    /\ UNCHANGED <<convs, directCreates, front, lastRead>>

(***************************************************************************)
(* The background write of the user message; a rejection is swallowed.     *)
(***************************************************************************)
UserWrite(r) ==
    /\ req[r].userWrite = "pending"
    /\ \/ /\ Exists(req[r].conversation)
          /\ msgs' = Append(msgs, NewMessage(req[r].conversation, "user",
                                             req[r].userMessageContent, r))
          /\ req' = [req EXCEPT ![r].userWrite = "saved"]
       \/ /\ req' = [req EXCEPT ![r].userWrite = "failed"]
          /\ UNCHANGED msgs
    /\ UNCHANGED <<convs, directCreates, front, lastRead>>

(***************************************************************************)
(* The stream: completion calls onFinish, an abort does not.               *)
(***************************************************************************)
AssistantTexts == {Text(2)}

OnFinish(r, text) ==
    /\ req[r].stream = "open"
    /\ req' = [req EXCEPT ![r].stream = "finished", ![r].pc = "done",
                          ![r].text = text,
                          ![r].assistantWrite =
                              IF req[r].conversation # 0 THEN "pending" ELSE "none",
                          ![r].touch =
                              IF req[r].conversation # 0 THEN "pending" ELSE "none"]
    /\ UNCHANGED <<convs, msgs, directCreates, front, lastRead>>

StreamAbort(r) ==
    /\ req[r].stream = "open"
    /\ req' = [req EXCEPT ![r].stream = "aborted", ![r].pc = "done"]
    /\ UNCHANGED <<convs, msgs, directCreates, front, lastRead>>

\* the two writes without the try/catch: a rejection fails the request
PersistAssistantUnguarded(r) ==
    /\ req[r].assistantWrite = "pending"
    /\ \E createOk \in {FALSE, Exists(req[r].conversation)},
          updateOk \in {FALSE, Exists(req[r].conversation)} :
          /\ msgs' = IF createOk
                     THEN Append(msgs, NewMessage(req[r].conversation, "assistant",
                                                  StringContent(req[r].text), r))
                     ELSE msgs
          /\ convs' = IF updateOk
                      THEN [convs EXCEPT ![req[r].conversation].updatedAt = @ + 1]
                      ELSE convs
          /\ req' = [req EXCEPT
                       ![r].assistantWrite = IF createOk THEN "saved" ELSE "failed",
                       ![r].touch = IF updateOk THEN "saved" ELSE "failed",
                       ![r].status = IF createOk /\ updateOk THEN @ ELSE 500]
    /\ UNCHANGED <<directCreates, front, lastRead>>

\* Promise.all([message.create, conversation.update]) inside try/catch:
\* each of the two writes succeeds or rejects, and a rejection is swallowed
PersistAssistant(r) ==
    /\ req[r].assistantWrite = "pending"
    /\ \E createOk \in {FALSE, Exists(req[r].conversation)},
          updateOk \in {FALSE, Exists(req[r].conversation)} :
          /\ msgs' = IF createOk
                     THEN Append(msgs, NewMessage(req[r].conversation, "assistant",
                                                  StringContent(req[r].text), r))
                     ELSE msgs
          /\ convs' = IF updateOk
                      THEN [convs EXCEPT ![req[r].conversation].updatedAt = @ + 1]
                      ELSE convs
          /\ req' = [req EXCEPT
                       ![r].assistantWrite = IF createOk THEN "saved" ELSE "failed",
                       ![r].touch = IF updateOk THEN "saved" ELSE "failed"]
    /\ UNCHANGED <<directCreates, front, lastRead>>

(***************************************************************************)
(* POST /api/conversations and DELETE /api/conversations/[id].             *)
(***************************************************************************)
PostConversation(u) ==
    /\ directCreates < MaxDirectCreates
    /\ convs' = Append(convs, NewConversation(u, NewConversationTitle))
    /\ directCreates' = directCreates + 1
    /\ UNCHANGED <<msgs, req, front, lastRead>>

\* if (!conversation): the 404 of the conversation endpoints
NotFound(conversation) == conversation = 0

Read(kind, u, id, status, conversations, messages) ==
    [kind |-> kind, user |-> u, id |-> id, status |-> status,
     conversations |-> conversations, messages |-> messages,
     convCount |-> Len(convs)]

\* a message of a response: text is the stored string, content the part list
ReadMessage(i, text, content) ==
    [id |-> i, role |-> msgs[i].role, text |-> text, content |-> content]

\* include: { messages: { orderBy: { createdAt: 'asc' } } }
MessagesOf(id) ==
    LET InConversation(i) == msgs[i].conversationId = id
    IN SelectSeq([i \in 1..Len(msgs) |-> i], InConversation)

DeleteConversation(u, id) ==
    /\ IF ~Authenticated(u)
       THEN /\ lastRead' = Read("delete", u, id, 401, <<>>, <<>>)
            /\ UNCHANGED <<convs, msgs>>
       ELSE IF NotFound(FindOwned(id, u))
       THEN /\ lastRead' = Read("delete", u, id, 404, <<>>, <<>>)
            /\ UNCHANGED <<convs, msgs>>
       ELSE \/ /\ convs' = [convs EXCEPT ![id].alive = FALSE]
               \* onDelete: Cascade of the messages
               /\ LET Keep(m) == m.conversationId # id
                  IN msgs' = SelectSeq(msgs, Keep)
               /\ lastRead' = Read("delete", u, id, 200, <<>>, <<>>)
            \/ /\ lastRead' = Read("delete", u, id, 500, <<>>, <<>>)
               /\ UNCHANGED <<convs, msgs>>
    /\ UNCHANGED <<req, directCreates, front>>

(***************************************************************************)
(* GET /api/conversations, GET /api/conversations/[id] and                 *)
(* GET /api/conversations/[id]/messages.                                   *)
(***************************************************************************)
\* a list filter that ignores the owner
ListedForAll(u, id) == Exists(id)

\* where: { userId: user.id }
ListedFor(u, id) == Exists(id) /\ convs[id].owner = u

\* orderBy: { updatedAt: 'desc' }; conversations of equal activity by id
RECURSIVE ByActivity(_)
ByActivity(ids) ==
    IF ids = {} THEN <<>>
    ELSE LET first == CHOOSE i \in ids :
                         \A j \in ids :
                            \/ convs[i].updatedAt > convs[j].updatedAt
                            \/ convs[i].updatedAt = convs[j].updatedAt /\ i >= j
         IN <<first>> \o ByActivity(ids \ {first})

ListConversations(u) ==
    /\ lastRead' =
          IF ~Authenticated(u) THEN Read("list", u, 0, 401, <<>>, <<>>)
          ELSE Read("list", u, 0, 200,
                    ByActivity({id \in 1..Len(convs) : ListedFor(u, id)}), <<>>)
    /\ UNCHANGED <<convs, msgs, req, directCreates, front>>

GetConversation(u, id) ==
    /\ lastRead' =
          IF ~Authenticated(u) THEN Read("conversation", u, id, 401, <<>>, <<>>)
          ELSE IF NotFound(FindOwned(id, u))
          THEN Read("conversation", u, id, 404, <<>>, <<>>)
          ELSE Read("conversation", u, id, 200, <<id>>,
                    [k \in 1..Len(MessagesOf(id)) |->
                        ReadMessage(MessagesOf(id)[k],
                                    StoredText(msgs[MessagesOf(id)[k]].content),
                                    <<>>)])
    /\ UNCHANGED <<convs, msgs, req, directCreates, front>>

\* the response of the history endpoint
GetMessagesResponse(u, id) ==
    IF ~Authenticated(u) THEN Read("messages", u, id, 401, <<>>, <<>>)
    ELSE IF NotFound(FindOwned(id, u))
    THEN Read("messages", u, id, 404, <<>>, <<>>)
    ELSE Read("messages", u, id, 200, <<id>>,
              [k \in 1..Len(MessagesOf(id)) |->
                  ReadMessage(MessagesOf(id)[k], <<>>,
                      ExpandContent(StoredText(msgs[MessagesOf(id)[k]].content)))])

GetMessages(u, id) ==
    /\ lastRead' = GetMessagesResponse(u, id)
    /\ UNCHANGED <<convs, msgs, req, directCreates, front>>

\* a query of a conversation endpoint rejects: the catch answers 500
ReadFailure(kind, u, id) ==
    /\ Authenticated(u)
    /\ lastRead' = Read(kind, u, id, 500, <<>>, <<>>)
    /\ UNCHANGED <<convs, msgs, req, directCreates, front>>


(***************************************************************************)
(* The chat view.  Its handlers read the state of the last render; Render  *)
(* commits the state to the screen and to the handlers.                    *)
(***************************************************************************)
\* the user signed in to the browser of the chat view
ViewUser == "u1"

\* the session of the browser: signed in, or expired
ViewCallers == {ViewUser, NoUser}

Rendered == view.rendered = Shown(view)

Render ==
    /\ ~Rendered
    /\ view' = [view EXCEPT !.rendered = Shown(view)]
    /\ UNCHANGED <<convs, msgs, req, directCreates, stream, sub, load, lastRead>>

\* handleSubmit up to the call of fetch
Submit(s, input, selectedImages) ==
    /\ sub[s].pc = "idle"
    /\ \A p \in Reqs : p < s => sub[p].pc # "idle"
    /\ ~(IsBlank(input) /\ selectedImages = <<>>)
    /\ ~view.rendered.isLoading
    /\ LET userMessage == Trim(input)
       IN /\ view' = [view EXCEPT
                        !.isLoading = TRUE,
                        !.messages = Append(@, TempUserMessage(s, userMessage,
                                                               selectedImages))]
          /\ sub' = [sub EXCEPT ![s] =
                       [@ EXCEPT !.pc = "fetching",
                                 !.conversationId = view.rendered.conversationId,
                                 !.allMessages =
                                     AllMessages(view.rendered.messages,
                                                 userMessage, selectedImages),
                                 !.before = view.messages]]
    /\ UNCHANGED <<convs, msgs, req, directCreates, stream, load, lastRead>>

\* the chat endpoint receives the request of submission s; u is the user
\* of the session cookie, or NoUser when the session has expired
ServeChat(s, u) ==
    /\ sub[s].pc # "idle"
    /\ Begin(s, u, ArrayBody(sub[s].allMessages), sub[s].conversationId)

\* the outer catch and the finally of handleSubmit; reader is the state
\* the reader of the response body is left in
FailSubmit(s, reader) ==
    /\ view' = [view EXCEPT !.messages = DiscardTemporary(@, s),
                            !.alerts = @ + 1,
                            !.isLoading = FALSE]
    /\ sub' = [sub EXCEPT ![s].pc = "done", ![s].outcome = "failed",
                          ![s].reader = reader]

\* fetch rejects
FetchFails(s) ==
    /\ sub[s].pc = "fetching"
    /\ Rendered
    /\ FailSubmit(s, "none")
    /\ UNCHANGED <<convs, msgs, req, directCreates, stream, load, lastRead>>

\* fetch resolves: the status check and the adoption of X-Conversation-Id
Response(s) ==
    /\ sub[s].pc = "fetching"
    /\ Rendered
    /\ req[s].status # 0
    /\ IF req[s].status # 200
       THEN FailSubmit(s, "none") /\ UNCHANGED load
       ELSE LET newConversationId == req[s].header
            IN \* response.body.getReader() locks the body
               /\ sub' = [sub EXCEPT ![s].pc = "reading",
                                     ![s].newConversationId = newConversationId,
                                     ![s].reader = "locked"]
               /\ IF /\ newConversationId # 0
                     /\ sub[s].conversationId = 0
                     /\ view.conversationId # newConversationId
                  THEN \* onConversationCreated, then the effect on conversationId
                       /\ view' = [view EXCEPT !.conversationId = newConversationId]
                       /\ load' = load \cup {newConversationId}
                  ELSE UNCHANGED <<view, load>>
    /\ UNCHANGED <<convs, msgs, req, directCreates, stream, lastRead>>

(***************************************************************************)
(* The response body: the server writes lines while the stream is open,    *)
(* the body ends when the stream has finished or was aborted.              *)
(***************************************************************************)
WriteLine(r, l) ==
    /\ req[r].stream = "open"
    /\ Len(stream[r].lines) < MaxLines
    /\ stream' = [stream EXCEPT ![r].lines = Append(@, l),
                                ![r].rest = @ \o EncodeLines(<<l>>)]
    /\ UNCHANGED <<convs, msgs, req, directCreates, view, sub, load, lastRead>>

CloseBody(r) ==
    /\ req[r].stream \in {"finished", "aborted"}
    /\ ~stream[r].closed
    /\ stream' = [stream EXCEPT ![r].closed = TRUE]
    /\ UNCHANGED <<convs, msgs, req, directCreates, view, sub, load, lastRead>>

\* a response with the body ls is being read by submission s
StreamBegins(s, ls) ==
    /\ sub[s].pc = "idle"
    /\ \A p \in Reqs : p < s => sub[p].pc # "idle"
    /\ ~view.isLoading
    /\ view' = [view EXCEPT
                  !.isLoading = TRUE,
                  !.messages = Append(@, TempUserMessage(s, Text(2), <<>>)),
                  !.rendered = [@ EXCEPT !.isLoading = TRUE,
                                         !.messages =
                                             Append(view.messages,
                                                    TempUserMessage(s, Text(2),
                                                                    <<>>))]]
    /\ sub' = [sub EXCEPT ![s] =
                 [@ EXCEPT !.pc = "reading",
                           !.reader = "locked",
                           !.allMessages = AllMessages(view.messages, Text(2), <<>>),
                           !.before = view.messages]]
    /\ stream' = [stream EXCEPT ![s] =
                    [lines |-> ls, rest |-> EncodeLines(ls), closed |-> TRUE]]
    /\ UNCHANGED <<convs, msgs, req, directCreates, load, lastRead>>

(***************************************************************************)
(* The read loop of handleSubmit.                                          *)
(***************************************************************************)
\* one reader.read() that returns n characters, and the loop body
ReadChunk(s, n) ==
    /\ sub[s].pc = "reading"
    /\ Rendered
    /\ n \in 1..Len(stream[s].rest)
    /\ LET chunk == SubSeq(stream[s].rest, 1, n)
           assistantMessage == ConsumeChunk(sub[s].assistantMessage, chunk)
       IN /\ stream' = [stream EXCEPT ![s].rest = From(@, n + 1)]
          /\ sub' = [sub EXCEPT ![s].assistantMessage = assistantMessage]
          /\ view' = IF assistantMessage # sub[s].assistantMessage
                     THEN [view EXCEPT !.messages =
                              ShowAssistant(@, assistantMessage, s)]
                     ELSE view
    /\ UNCHANGED <<convs, msgs, req, directCreates, load, lastRead>>

\* reader.read() returns done: the loop breaks and the finally of the
\* read loop releases the lock
ReadDone(s) ==
    /\ sub[s].pc = "reading"
    /\ Rendered
    /\ stream[s].rest = <<>>
    /\ stream[s].closed
    /\ IF sub[s].newConversationId # 0 \/ sub[s].conversationId # 0
       THEN /\ sub' = [sub EXCEPT ![s].pc = "reloading",
                                  ![s].reader = "released"]
            /\ UNCHANGED view
       ELSE /\ sub' = [sub EXCEPT ![s].pc = "done", ![s].outcome = "ok",
                                  ![s].reader = "released"]
            /\ view' = [view EXCEPT !.isLoading = FALSE]
    /\ UNCHANGED <<convs, msgs, req, directCreates, stream, load, lastRead>>

\* a read loop whose clean-up runs only on the normal exit
ReadFailsLocked(s) ==
    /\ sub[s].pc = "reading"
    /\ Rendered
    /\ FailSubmit(s, sub[s].reader)
    /\ UNCHANGED <<convs, msgs, req, directCreates, stream, load, lastRead>>

\* reader.read() rejects, or the handling of a chunk throws: the inner
\* catch, the finally that releases the lock, then the outer catch
ReadFails(s) ==
    /\ sub[s].pc = "reading"
    /\ Rendered
    /\ FailSubmit(s, "released")
    /\ UNCHANGED <<convs, msgs, req, directCreates, stream, load, lastRead>>

(***************************************************************************)
(* loadConversation.                                                       *)
(***************************************************************************)
\* what loadConversation gets: the response of the history endpoint, or a
\* failure (the endpoint answers 500, or fetch rejects)
LoadResponses(id) ==
    {GetMessagesResponse(ViewUser, id),
     Read("messages", ViewUser, id, 500, <<>>, <<>>)}

\* the transcript after loadConversation has handled the response
Loaded(messages, response) ==
    IF response.status = 200 THEN TransformMessages(response.messages)
    ELSE IF response.status = 404 THEN <<>>
    ELSE messages

\* the 404 of loadConversation: localStorage.removeItem and
\* window.location.reload().  The page is mounted anew with no conversation
\* selected, and what the old page was waiting for is abandoned
PageReload ==
    /\ view' = [view EXCEPT !.conversationId = 0, !.messages = <<>>,
                            !.isLoading = FALSE,
                            !.rendered = [conversationId |-> 0,
                                          messages |-> <<>>,
                                          isLoading |-> FALSE]]
    /\ load' = {}
    /\ sub' = [s \in Reqs |->
                IF sub[s].pc \in {"fetching", "reading", "reloading"}
                THEN [sub[s] EXCEPT !.pc = "done", !.outcome = "abandoned",
                                    !.reader = IF @ = "locked" THEN "released"
                                               ELSE @]
                ELSE sub[s]]

\* the reload at the end of handleSubmit, and its finally
Reload(s, response) ==
    /\ sub[s].pc = "reloading"
    /\ Rendered
    /\ IF response.status = 404
       THEN PageReload
       ELSE /\ view' = [view EXCEPT !.messages = Loaded(@, response),
                                    !.isLoading = FALSE]
            /\ sub' = [sub EXCEPT ![s].pc = "done", ![s].outcome = "ok"]
            /\ UNCHANGED load
    /\ UNCHANGED <<convs, msgs, req, directCreates, stream, lastRead>>

\* the load started by the effect on conversationId
EffectLoad(id, response) ==
    /\ id \in load
    /\ Rendered
    /\ IF response.status = 404
       THEN PageReload
       ELSE /\ view' = [view EXCEPT !.messages = Loaded(@, response)]
            /\ load' = load \ {id}
            /\ UNCHANGED sub
    /\ UNCHANGED <<convs, msgs, req, directCreates, stream, lastRead>>

\* handleSelectConversation, then the effect on conversationId
SelectConversation(id) ==
    /\ view.conversationId # id
    /\ view' = [view EXCEPT !.conversationId = id]
    /\ load' = load \cup {id}
    /\ UNCHANGED <<convs, msgs, req, directCreates, stream, sub, lastRead>>

\* handleNewChat, then the effect on conversationId: setMessages([])
NewChat ==
    /\ view.conversationId # 0
    /\ view' = [view EXCEPT !.conversationId = 0, !.messages = <<>>]
    /\ UNCHANGED <<convs, msgs, req, directCreates, stream, sub, load, lastRead>>

(***************************************************************************)
(* Requests the clients send.                                              *)
(***************************************************************************)
ShortText == Text(2)
LongText == Text(MaxTextLen)

UserTextTurn == UITurn("user", <<TextPart(ShortText)>>)
AssistantTurn == UITurn("assistant", <<TextPart(ShortText)>>)
RolelessTurn == UITurn("none", <<TextPart(ShortText)>>)

CoreBodies ==
    {NullBody, MissingBody, NotArrayBody, ArrayBody(<<>>),
     ArrayBody(<<UserTextTurn>>), ArrayBody(<<AssistantTurn>>)}

\* the request bodies of SpecInput: the bodies without a messages array,
\* and the arrays of a history of up to MaxTurns - 1 turns followed by a
\* latest turn, or of MaxContext alternating turns
WideBodies ==
    LET Texts == {EmptyText, ShortText, Text(TitleLen), LongText}
        \* raw base64 at and above the length that is taken for an image
        \* and 'data:text/plain,hi', a data URI that is no image
        Images == {DataUri, HttpUrl, BlobUrl, JunkImage,
                   Text(Base64MinLen), Text(Base64MinLen + 1),
                   Prefix.data \o <<116, 101, 120, 116, 47, 112, 108, 97, 105,
                                    110, 44, 104, 105>>}
        WideTurns ==
            {UITurn("user", <<TextPart(t)>>) : t \in Texts}
            \cup {ModelTurn("user", StringContent(t)) : t \in {EmptyText, LongText}}
            \cup {UITurn("user", <<TextPart(ShortText), ImagePart(u)>>) :
                     u \in Images}
            \cup {UITurn("user", <<ImagePart(DataUri)>>),
                  UITurn("user", <<TextPart(EmptyText), ImagePart(DataUri)>>),
                  UITurn("user", <<ImagePart(DataUri), TextPart(LongText)>>),
                  UITurn("user", <<TextPart(ShortText), FilePart(HttpUrl)>>),
                  UITurn("user", <<ImagePart(JunkImage), FilePart(DataUri)>>),
                  ModelTurn("user", ArrayContent(<<TextPart(ShortText),
                                                   ImageUrlPart(DataUri)>>)),
                  ModelTurn("assistant", StringContent(ShortText)),
                  AssistantTurn, RolelessTurn}
        \* the turns that precede the latest one
        HistoryTurns ==
            {UserTextTurn, ModelTurn("assistant", StringContent(ShortText)),
             RolelessTurn, UITurn("user", <<TextPart(ShortText), FilePart(DataUri)>>)}
        Histories == UNION {[1..n -> HistoryTurns] : n \in 0..(MaxTurns - 1)}
        \* a conversation of n turns that ends with a turn of the user
        Alternating(n) ==
            [i \in 1..n |-> IF (n - i) % 2 = 0 THEN UserTextTurn ELSE AssistantTurn]
    IN {NullBody, MissingBody, NotArrayBody, ArrayBody(<<>>)}
       \cup {ArrayBody(h \o <<t>>) : h \in Histories, t \in WideTurns}
       \cup {ArrayBody(Alternating(n)) : n \in {ContextLimit, MaxContext}}

\* ids a client can send: none, one never issued, or one issued earlier
KnownIds == {0, UnknownId} \cup (1..Len(convs))

(***************************************************************************)
(* Spec: concurrent chat requests and POST /api/conversations.             *)
(***************************************************************************)
Next ==
    \/ \E r \in Reqs, u \in Callers, b \in CoreBodies, cid \in KnownIds :
          Begin(r, u, b, cid)
    \/ \E r \in Reqs : CreateConversation(r)
    \/ \E r \in Reqs : StreamText(r)
    \/ \E r \in Reqs : UserWrite(r)
    \/ \E r \in Reqs, text \in AssistantTexts : OnFinish(r, text)
    \/ \E r \in Reqs : StreamAbort(r)
    \/ \E r \in Reqs : PersistAssistant(r)
    \/ \E u \in Users : PostConversation(u)

Spec == Init /\ [][Next]_vars

(***************************************************************************)
(* SpecInput: one chat request over the wide set of request bodies.        *)
(***************************************************************************)
NextInput ==
    \/ \E u \in Callers, b \in WideBodies, cid \in KnownIds : Begin(1, u, b, cid)
    \/ CreateConversation(1)
    \/ StreamText(1)
    \/ UserWrite(1)
    \/ \E text \in AssistantTexts : OnFinish(1, text)
    \/ StreamAbort(1)
    \/ PersistAssistant(1)

SpecInput == Init /\ [][NextInput]_vars

(***************************************************************************)
(* SpecStore: one chat request of either user and a conversation created   *)
(* directly, next to the conversation endpoints called from the browser    *)
(* of one user.                                                            *)
(***************************************************************************)
\* ids a client can put in the path of a conversation endpoint
StoreIds == KnownIds \ {0}

NextStore ==
    \/ \E u \in Users, cid \in KnownIds :
          Begin(1, u, ArrayBody(<<UserTextTurn>>), cid)
    \/ CreateConversation(1)
    \/ StreamText(1)
    \/ UserWrite(1)
    \/ \E text \in AssistantTexts : OnFinish(1, text)
    \/ StreamAbort(1)
    \/ PersistAssistant(1)
    \/ \E u \in Users : PostConversation(u)
    \/ \E u \in ViewCallers, id \in StoreIds : DeleteConversation(u, id)
    \/ \E u \in ViewCallers : ListConversations(u)
    \/ \E u \in ViewCallers, id \in StoreIds : GetConversation(u, id)
    \/ \E u \in ViewCallers, id \in StoreIds : GetMessages(u, id)
    \/ \E kind \in {"list", "conversation", "messages"} :
          ReadFailure(kind, ViewUser, UnknownId)

SpecStore == Init /\ [][NextStore]_vars

(***************************************************************************)
(* SpecStream: the read loop of one submission over the bodies of up to    *)
(* MaxLines lines, split into read chunks at every position.               *)
(***************************************************************************)
\* the bodies of up to MaxLines lines, with the fragments 'a' and 'b"'
WireBodies ==
    LET lines == {Line("delta", <<97>>), Line("delta", <<98, 34>>),
                  Line("sse", <<97>>), Line("finish", <<>>),
                  Line("broken", <<>>), Line("blank", <<>>)}
    IN UNION {[1..n -> lines] : n \in 0..MaxLines}

NextStream ==
    \/ \E ls \in WireBodies : StreamBegins(1, ls)
    \/ \E n \in 1..Len(stream[1].rest) : ReadChunk(1, n)
    \/ ReadDone(1)
    \/ ReadFails(1)
    \/ Render

SpecStream == Init /\ [][NextStream]_vars

(***************************************************************************)
(* SpecClient: one submission of the chat view of one user and the chat    *)
(* request that carries it.                                                *)
(***************************************************************************)
\* the conversation the reload at the end of handleSubmit asks for
ReloadId(s) ==
    IF sub[s].newConversationId # 0 THEN sub[s].newConversationId
    ELSE sub[s].conversationId

NextClient ==
    \/ Submit(1, ShortText, <<>>)
    \/ Render
    \/ \E u \in ViewCallers : ServeChat(1, u)
    \/ CreateConversation(1)
    \/ StreamText(1)
    \/ UserWrite(1)
    \/ \E l \in {Line("delta", <<97>>), Line("sse", <<98>>)} : WriteLine(1, l)
    \/ OnFinish(1, Flatten([i \in 1..Len(stream[1].lines) |->
                               stream[1].lines[i].text]))
    \/ StreamAbort(1)
    \/ CloseBody(1)
    \/ PersistAssistant(1)
    \/ FetchFails(1)
    \/ Response(1)
    \/ ReadChunk(1, Len(stream[1].rest))
    \/ ReadDone(1)
    \/ ReadFails(1)
    \/ \E response \in LoadResponses(ReloadId(1)) : Reload(1, response)
    \/ \E id \in load : \E response \in LoadResponses(id) :
          EffectLoad(id, response)

SpecClient == Init /\ [][NextClient]_vars

(***************************************************************************)
(* SpecView: the submissions of one chat view whose session has expired:   *)
(* every chat request is answered 401 or lost.                             *)
(***************************************************************************)
NextView ==
    \/ \E s \in Reqs, input \in {ShortText, <<32>>},
            selectedImages \in {<<>>, <<DataUri>>} :
          Submit(s, input, selectedImages)
    \/ Render
    \/ \E s \in Reqs : ServeChat(s, NoUser)
    \/ \E s \in Reqs : FetchFails(s)
    \/ \E s \in Reqs : Response(s)

SpecView == Init /\ [][NextView]_vars

(***************************************************************************)
(* SpecHistory: one chat request that opens a conversation, over turns and *)
(* answers whose text looks like JSON, and the history endpoint.           *)
(***************************************************************************)
\* 'ab', '[a', 'a"\', '[]', '[1]', '[null]', '{}' and the JSON text of a
\* part array
HistoryTexts ==
    {ShortText, <<Char.openBracket, 97>>, <<97, Char.quote, Char.backslash>>,
     <<Char.openBracket, Char.closeBracket>>,
     <<Char.openBracket, 49, Char.closeBracket>>,
     <<Char.openBracket, 110, 117, 108, 108, Char.closeBracket>>,
     <<Char.openBrace, Char.closeBrace>>,
     StringifyParts(<<TextPart(<<97>>)>>)}

NextHistory ==
    \/ \E input \in {ShortText, <<32>>}, selectedImages \in {<<>>, <<DataUri>>} :
          Submit(1, input, selectedImages)
    \/ ServeChat(1, ViewUser)
    \/ \E turn \in
            {UITurn("user", <<TextPart(t)>>) : t \in HistoryTexts}
            \cup {ModelTurn("user", StringContent(t)) : t \in HistoryTexts}
            \cup {UITurn("user", <<TextPart(t), ImagePart(DataUri)>>) :
                     t \in HistoryTexts}
            \cup {UITurn("user", <<ImagePart(DataUri)>>)} :
          Begin(1, ViewUser, ArrayBody(<<turn>>), 0)
    \/ CreateConversation(1)
    \/ StreamText(1)
    \/ UserWrite(1)
    \/ \E text \in HistoryTexts : OnFinish(1, text)
    \/ StreamAbort(1)
    \/ PersistAssistant(1)
    \/ \E id \in 1..Len(convs) : GetMessages(ViewUser, id)

SpecHistory == Init /\ [][NextHistory]_vars

(***************************************************************************)
(* SpecSwitch: a chat view in which the user moves between the             *)
(* conversations that two earlier chat requests of the user have stored.   *)
(***************************************************************************)
\* the conversations the conversation list of the view shows
Listed == {id \in 1..Len(convs) : ListedFor(ViewUser, id)}

NextSwitch ==
    \/ \E r \in Reqs : Begin(r, ViewUser, ArrayBody(<<UserTextTurn>>), 0)
    \/ \E r \in Reqs : CreateConversation(r)
    \/ \E r \in Reqs : StreamText(r)
    \/ \E r \in Reqs : UserWrite(r)
    \/ \E r \in Reqs, text \in AssistantTexts : OnFinish(r, text)
    \/ \E r \in Reqs : PersistAssistant(r)
    \/ \E id \in Listed : SelectConversation(id)
    \/ NewChat
    \/ Render
    \/ \E id \in load : \E response \in LoadResponses(id) :
          EffectLoad(id, response)

SpecSwitch == Init /\ [][NextSwitch]_vars

(***************************************************************************)
(* SpecStale: the consecutive turns of one chat view.  Before the first    *)
(* turn the user may open a conversation created from the list, and the    *)
(* conversation may be deleted from elsewhere.  The writes of the turns    *)
(* to the store are left pending.                                          *)
(***************************************************************************)
NextStale ==
    \/ PostConversation(ViewUser)
    \/ \E id \in Listed : sub[1].pc = "idle" /\ SelectConversation(id)
    \/ \E id \in Listed : sub[1].pc = "idle" /\ DeleteConversation(ViewUser, id)
    \/ \E s \in Reqs : Submit(s, ShortText, <<>>)
    \/ Render
    \/ \E s \in Reqs : ServeChat(s, ViewUser)
    \/ \E s \in Reqs : CreateConversation(s)
    \/ \E s \in Reqs : StreamText(s)
    \/ \E s \in Reqs, text \in AssistantTexts : OnFinish(s, text)
    \/ \E s \in Reqs : CloseBody(s)
    \/ \E s \in Reqs : Response(s)
    \/ \E s \in Reqs : ReadDone(s)
    \/ \E s \in Reqs : \E response \in LoadResponses(ReloadId(s)) :
          Reload(s, response)
    \/ \E id \in load : \E response \in LoadResponses(id) :
          EffectLoad(id, response)

SpecStale == Init /\ [][NextStale]_vars

TypeOK ==
    /\ directCreates \in 0..MaxDirectCreates
    /\ \A r \in Reqs : req[r].status \in {0, 200, 400, 401, 500}

(***************************************************************************)
(* Vocabulary of the properties.                                           *)
(***************************************************************************)
\* the messages in the store that request r wrote
MsgsOf(r) == {i \in 1..Len(msgs) : msgs[i].req = r}

\* request r was answered or is being handled
Begun(r) == req[r].pc # "idle"

\* request r passed authentication and validation
Accepted(r) ==
    /\ Begun(r)
    /\ req[r].user \in Users
    /\ req[r].body.kind = "array"

\* request r has caused nothing beyond its response
NoSideEffect(r) ==
    /\ ~req[r].looked
    /\ req[r].created = 0
    /\ ~req[r].modelInvoked
    /\ req[r].userWrite = "none"
    /\ req[r].assistantWrite = "none"
    /\ MsgsOf(r) = {}

\* request r supplied a conversation id and the lookup found nothing
LookupMissed(r) ==
    /\ Accepted(r)
    /\ req[r].looked
    /\ req[r].conversation = 0 \/ req[r].created # 0

(***************************************************************************)
(* C1: a chat request whose caller cannot be authenticated is answered     *)
(* 401 and has no other effect: no conversation is looked up or created,   *)
(* no message is written and the model is not invoked.                     *)
(***************************************************************************)
C1_UnauthenticatedIs401 ==
    \A r \in Reqs :
        Begun(r) /\ req[r].user = NoUser =>
            /\ req[r].pc = "done"
            /\ req[r].status = 401
            /\ NoSideEffect(r)

C1_Witness ==
    \E r \in Reqs : req[r].status = 401 /\ req[r].pc = "done"

C8_HeaderIsPersistedConversation ==
    \A r \in Reqs :
        req[r].status = 200 =>
            /\ (req[r].header # 0) = (req[r].conversation # 0)
            /\ req[r].conversation # 0 => req[r].header = req[r].conversation
            /\ \A i \in MsgsOf(r) : msgs[i].conversationId = req[r].header

C8_Witness ==
    \E r \in Reqs :
        /\ req[r].status = 200
        /\ req[r].header # 0
        /\ req[r].conversationId # 0
        /\ \E i, j \in MsgsOf(r) :
              msgs[i].role = "user" /\ msgs[j].role = "assistant"

(***************************************************************************)
(* C7: the write of the user turn is not awaited: the step that settles    *)
(* it, as a success or as a failure and however late, changes nothing      *)
(* else of the request: not its response status or header, not its         *)
(* stream or text, not the persistence of the assistant turn.              *)
(***************************************************************************)
C7_UserWriteDoesNotInterfere ==
    [][\A r \in Reqs :
          req[r].userWrite = "pending" /\ req'[r].userWrite # "pending" =>
              req'[r] = [req[r] EXCEPT !.userWrite = req'[r].userWrite]]_vars

\* the response was sent and the assistant turn saved although the user
\* write failed
C7_Witness ==
    \E r \in Reqs :
        /\ req[r].userWrite = "failed"
        /\ req[r].status = 200
        /\ req[r].assistantWrite = "saved"

(***************************************************************************)
(* C2 as stated: every message is written to a conversation of the         *)
(* requesting user, and a request whose conversationId is absent from the  *)
(* store or owned by another user is answered without error after         *)
(* creating a fresh conversation owned by the caller.                      *)
(***************************************************************************)
WritesAreOwned ==
    \A i \in 1..Len(msgs) :
        convs[msgs[i].conversationId].owner = req[msgs[i].req].user

C3_NoEmptyConversation ==
    \A id \in 1..Len(convs) :
        convs[id].alive => \E i \in 1..Len(msgs) : msgs[i].conversationId = id

(***************************************************************************)
(* C5 as stated: an authenticated chat request with a turn that has no     *)
(* role is rejected: the model is never invoked for it and it is never     *)
(* answered 200.                                                           *)
(***************************************************************************)
HasRolelessTurn(b) ==
    b.kind = "array" /\ \E i \in 1..Len(b.arr) : b.arr[i].role = "none"

C6_StoreFailuresAbsorbed ==
    \A r \in Reqs :
        req[r].status \in {400, 401, 500} =>
            \/ req[r].user = NoUser
            \/ req[r].body.kind # "array"
            \/ req[r].modelInvoked

(***************************************************************************)
(* C9: a chat request creates a conversation only if it has a turn to      *)
(* persist, that is a latest user turn whose content is written.           *)
(***************************************************************************)
C9_CreatedOnlyWithTurnToPersist ==
    \A r \in Reqs :
        req[r].created # 0 =>
            Truthy(UserMessageContent(req[r].body.arr, req[r].validMessages))

(***************************************************************************)
(* C10: the title of a conversation a chat request creates is the first    *)
(* 50 characters of the first text part of the latest user turn of the     *)
(* request, and 'New Conversation' if there is no such turn or text.       *)
(***************************************************************************)
TurnText(m) ==
    IF m.hasParts
    THEN LET ts == SelectSeq(m.parts, IsTextPart)
         IN IF ts = <<>> THEN EmptyText ELSE ts[1].text
    ELSE IF m.content.kind = "string" THEN m.content.text ELSE EmptyText

ClaimedTitle(arr) ==
    LET us == SelectSeq(arr, IsUserTurn)
    IN IF us = <<>> \/ TurnText(us[Len(us)]) = EmptyText
       THEN NewConversationTitle
       ELSE Slice(TurnText(us[Len(us)]), TitleLen)

C10_TitleIsFirst50 ==
    \A r \in Reqs :
        req[r].created # 0 =>
            convs[req[r].created].title = ClaimedTitle(req[r].body.arr)

\* the text fragments of the text-delta lines among ls, in order
ConcatDeltas(ls) ==
    Flatten([i \in 1..Len(ls) |->
                IF ls[i].kind = "delta" THEN ls[i].text ELSE <<>>])

(***************************************************************************)
(* C11: when the read loop has ended normally, the assistant message it    *)
(* assembled is the concatenation, in order, of the text fragments of the  *)
(* text-delta lines of the body, however the body was split into chunks.   *)
(***************************************************************************)
C11_AssembledIsConcatenation ==
    \A s \in Reqs :
        sub[s].outcome = "ok" =>
            sub[s].assistantMessage = ConcatDeltas(stream[s].lines)

(***************************************************************************)
(* Vocabulary of the properties of the chat view.                          *)
(***************************************************************************)
\* submission s has sent its request and handleSubmit has not returned
InFlight(s) == sub[s].pc \in {"fetching", "reading", "reloading"}

\* the transcript shows a message of the assistant
ShowsAssistant == \E i \in 1..Len(view.messages) : view.messages[i].role = "assistant"

\* the transcript shows the stored message number n
ShowsStored(n) == \E i \in 1..Len(view.messages) : view.messages[i].id = Id("db", n)

(***************************************************************************)
(* C12: the step in which a submission fails (non-OK response, fetch       *)
(* failure or stream read failure) leaves the transcript as it was before  *)
(* the submission, without a temp-assistant message and without the        *)
(* optimistic user message, and raises an alert.                           *)
(***************************************************************************)
C12_FailureRestoresTranscript ==
    [][\A s \in Reqs :
          sub[s].outcome # "failed" /\ sub'[s].outcome = "failed" =>
              /\ view'.messages = sub[s].before
              /\ \A i \in 1..Len(view'.messages) :
                    /\ ~IsTempAssistant(view'.messages[i])
                    /\ view'.messages[i].id # Id("temp", s)
              /\ view'.alerts = view.alerts + 1]_vars

(***************************************************************************)
(* C13: when the stream of a chat request ended without the completion of  *)
(* the model, no assistant message of the request is in the store, and     *)
(* once the submission is over and no history load is in flight the        *)
(* transcript shows no message of the assistant.                           *)
(***************************************************************************)
C13_AbortLeavesNoAssistant ==
    \A s \in Reqs :
        req[s].stream = "aborted" =>
            /\ \A i \in MsgsOf(s) : msgs[i].role # "assistant"
            /\ sub[s].pc = "done" /\ load = {} => ~ShowsAssistant

(***************************************************************************)
(* C14: at most one submission of the chat view is in flight.              *)
(***************************************************************************)
C14_OneRequestInFlight ==
    Cardinality({s \in Reqs : InFlight(s)}) <= 1

(***************************************************************************)
(* C20: when a stream has completed and the reload of handleSubmit has     *)
(* finished, the transcript is the message list of the conversation in     *)
(* the store: it shows the user turn and the assistant turn of the         *)
(* exchange and no message with a temporary id.                            *)
(***************************************************************************)
C20_ReloadShowsExchange ==
    \A s \in Reqs :
        sub[s].outcome = "ok" /\ req[s].stream = "finished" =>
            /\ \A i \in 1..Len(view.messages) : ~IsTemp(view.messages[i])
            /\ \E n \in MsgsOf(s) : msgs[n].role = "user" /\ ShowsStored(n)
            /\ \E n \in MsgsOf(s) : msgs[n].role = "assistant" /\ ShowsStored(n)
            /\ view.messages =
                  TransformMessages(
                      GetMessagesResponse(ViewUser, ReloadId(s)).messages)

(***************************************************************************)
(* Vocabulary of the properties of the conversation endpoints.             *)
(***************************************************************************)
\* conversation id is in the store and belongs to user u
Owns(u, id) == \E c \in 1..Len(convs) : c = id /\ convs[c].alive /\ convs[c].owner = u

(***************************************************************************)
(* C15: the history endpoint answers an authenticated caller 404 exactly   *)
(* when the conversation asked for is not in the store or belongs to       *)
(* somebody else; and when a chat request named a conversation that was    *)
(* not found and created a new one, the history of the id it named is      *)
(* still answered 404.                                                     *)
(***************************************************************************)
C15_HistoryNotFoundExactly ==
    /\ [](\A r \in Reqs :
            LookupMissed(r) /\ req[r].created # 0 =>
                GetMessagesResponse(req[r].user, req[r].conversationId).status = 404)
    /\ [][\A u \in Users, id \in StoreIds :
              GetMessages(u, id) =>
                  /\ lastRead'.status \in {200, 404}
                  /\ lastRead'.status = 404 <=> ~Owns(u, id)]_vars

C15_Witness ==
    /\ lastRead.kind = "messages"
    /\ lastRead.status = 404
    /\ \E r \in Reqs :
          /\ LookupMissed(r)
          /\ req[r].created # 0
          /\ lastRead.user = req[r].user
          /\ lastRead.id = req[r].conversationId
          /\ lastRead.convCount >= req[r].created

(***************************************************************************)
(* C16: the list, the conversation read and the history read hand out      *)
(* only conversations of the caller and messages of those conversations;   *)
(* a DELETE of a conversation that is not the caller's is answered 404     *)
(* and changes neither the conversations nor the messages.                 *)
(***************************************************************************)
C16_OnlyOwnedData ==
    [][/\ lastRead'.kind \in {"list", "conversation", "messages"} =>
             /\ \A k \in 1..Len(lastRead'.conversations) :
                   convs'[lastRead'.conversations[k]].owner = lastRead'.user
             /\ \A k \in 1..Len(lastRead'.messages) :
                   /\ convs'[lastRead'.id].owner = lastRead'.user
                   /\ msgs'[lastRead'.messages[k].id].conversationId = lastRead'.id
       /\ \A u \in Users, id \in StoreIds :
             DeleteConversation(u, id) /\ ~Owns(u, id) =>
                 /\ lastRead'.status = 404
                 /\ convs' = convs
                 /\ msgs' = msgs]_vars

C16_Witness ==
    /\ lastRead.kind = "delete"
    /\ lastRead.status = 404
    /\ lastRead.user \in Users
    /\ lastRead.id \in 1..Len(convs)
    /\ convs[lastRead.id].alive
    /\ convs[lastRead.id].owner # lastRead.user
    /\ \E i \in 1..Len(msgs) : msgs[i].conversationId = lastRead.id

(***************************************************************************)
(* Vocabulary of the properties of the history endpoint.                   *)
(***************************************************************************)
\* the last response is a history of a conversation
HistoryRead == lastRead.kind = "messages" /\ lastRead.status = 200

\* the turn of the request that wrote the stored message number n
TurnOf(n) == req[msgs[n].req].body.arr[Len(req[msgs[n].req].body.arr)]

\* the stored message number n is a user turn of a text and an image
\* given as a data URI
TextAndImage(n) ==
    /\ msgs[n].role = "user"
    /\ TurnOf(n).hasParts
    /\ Len(TurnOf(n).parts) = 2
    /\ TurnOf(n).parts[1].type = "text"
    /\ TurnOf(n).parts[2].type = "image"
    /\ StartsWith(TurnOf(n).parts[2].image, Prefix.dataImage)

(***************************************************************************)
(* C17: the content list of every message of a history is not empty and    *)
(* holds at least one text part.                                           *)
(***************************************************************************)
C17_HistoryHasTextPart ==
    HistoryRead =>
        \A k \in 1..Len(lastRead.messages) :
            /\ lastRead.messages[k].content # <<>>
            /\ \E i \in 1..Len(lastRead.messages[k].content) :
                  IsJTextPart(lastRead.messages[k].content[i])

(***************************************************************************)
(* C18: a message stored as the bare string t is read back by the history  *)
(* endpoint as exactly one text part whose text is t.                      *)
(***************************************************************************)
C18_BareStringRoundTrip ==
    HistoryRead =>
        \A k \in 1..Len(lastRead.messages) :
            msgs[lastRead.messages[k].id].content.kind = "string" =>
                lastRead.messages[k].content =
                    <<JTextPart(JString(msgs[lastRead.messages[k].id].content.text))>>

(***************************************************************************)
(* C19: a user turn of a text and an image given as a data URI is read     *)
(* back by the history endpoint as exactly two parts: the text part with   *)
(* the text of the turn, then an image_url part with the same URL.         *)
(***************************************************************************)
C19_TextAndImageRoundTrip ==
    HistoryRead =>
        \A k \in 1..Len(lastRead.messages) :
            TextAndImage(lastRead.messages[k].id) =>
                lastRead.messages[k].content =
                    <<JTextPart(JString(TurnOf(lastRead.messages[k].id).parts[1].text)),
                      JImageUrlPart(JString(TurnOf(lastRead.messages[k].id).parts[2].image))>>

C19_Witness ==
    /\ HistoryRead
    /\ \E k \in 1..Len(lastRead.messages) :
          /\ TextAndImage(lastRead.messages[k].id)
          /\ Char.quote \in {TurnOf(lastRead.messages[k].id).parts[1].text[i] :
                            i \in 1..Len(TurnOf(lastRead.messages[k].id).parts[1].text)}
          /\ Len(lastRead.messages[k].content) = 2

(***************************************************************************)
(* Vocabulary of the properties of the model call.                         *)
(***************************************************************************)
\* the last n elements of a sequence
LastOf(seq, n) == IF Len(seq) <= n THEN seq ELSE SubSeq(seq, Len(seq) - n + 1, Len(seq))

(***************************************************************************)
(* C21: the model is invoked with at most the last 20 messages of the      *)
(* conversation: the context it gets is the last 20 of the valid turns of  *)
(* the request, and the older turns are truncated.                         *)
(***************************************************************************)
C21_ContextIsLast20 ==
    \A r \in Reqs : req[r].modelInvoked =>
        /\ Len(req[r].modelMessages) <= ContextLimit
        /\ req[r].modelMessages =
              LastOf(ModelMessages(req[r].validMessages), ContextLimit)

\* turn m of a request body holds an image part of one of the shapes the
\* endpoint accepts
HoldsImage(m) ==
    \/ /\ m.hasParts
       /\ \E i \in 1..Len(m.parts) :
             \/ m.parts[i].type = "image" /\ m.parts[i].image # NoUrl
             \/ m.parts[i].type = "file" /\ m.parts[i].url # NoUrl
    \/ /\ m.content.kind = "array"
       /\ \E i \in 1..Len(m.content.parts) :
             m.content.parts[i].type \in {"image", "image_url", "file"}

(***************************************************************************)
(* C23: the model is chosen by image presence: gpt-4o when a turn of the   *)
(* request, the latest or one of the history, holds an image part (image,  *)
(* image_url or file), and gpt-4o-mini otherwise.                          *)
(***************************************************************************)
C23_ModelByImagePresence ==
    \A r \in Reqs : req[r].modelInvoked =>
        req[r].modelName =
            IF \E i \in 1..Len(req[r].body.arr) :
                  /\ req[r].body.arr[i].role \notin {"none", "system"}
                  /\ HoldsImage(req[r].body.arr[i])
            THEN "gpt-4o" ELSE "gpt-4o-mini"

\* the assistant messages in the store that request r wrote
AssistantMsgsOf(r) == {i \in MsgsOf(r) : msgs[i].role = "assistant"}

\* the text the model has produced for request r: the fragments of the
\* lines of its stream
Accumulated(r) ==
    Flatten([i \in 1..Len(stream[r].lines) |-> stream[r].lines[i].text])

(***************************************************************************)
(* C22: for a chat request that holds a conversation, an assistant message *)
(* is written only after the model has signalled completion, at most once  *)
(* and exactly once when the write succeeds, with the full accumulated     *)
(* text and to the conversation of the request; the bump of the            *)
(* last-activity time is settled in the same step; and a failure of        *)
(* either write leaves the response as it was, a 200.                      *)
(***************************************************************************)
C22_AssistantPersistedOnFinish ==
    /\ [](\A r \in Reqs :
            /\ Cardinality(AssistantMsgsOf(r)) <= 1
            /\ \A i \in AssistantMsgsOf(r) :
                  /\ req[r].stream = "finished"
                  /\ msgs[i].content = StringContent(Accumulated(r))
                  /\ msgs[i].conversationId = req[r].conversation
            /\ req[r].stream = "finished" /\ req[r].conversation # 0 =>
                  req[r].assistantWrite # "none"
            /\ req[r].assistantWrite = "saved" =>
                  Cardinality(AssistantMsgsOf(r)) = 1
            /\ req[r].assistantWrite \in {"saved", "failed"} =>
                  req[r].status = 200)
    /\ [][\A r \in Reqs :
            req[r].assistantWrite = "pending" /\ req'[r].assistantWrite # "pending" =>
                /\ req'[r].touch \in {"saved", "failed"}
                /\ req'[r].touch = "saved" <=>
                      convs' = [convs EXCEPT
                                   ![req[r].conversation].updatedAt = @ + 1]
                /\ req'[r].touch = "failed" <=> convs' = convs
                /\ req'[r].assistantWrite = "failed" <=> msgs' = msgs
                /\ req'[r].status = req[r].status
                /\ req'[r].stream = req[r].stream]_vars

\* the assistant message of a completed stream of two fragments is in the
\* store although the bump of the last-activity time was rejected
C22_Witness ==
    /\ req[1].assistantWrite = "saved"
    /\ req[1].touch = "failed"
    /\ req[1].status = 200
    /\ Len(stream[1].lines) = 2
    /\ \E i \in AssistantMsgsOf(1) : msgs[i].content = StringContent(Accumulated(1))

\* the positions of the transcript that hold a synthetic assistant message
TempAssistants == {i \in 1..Len(view.messages) : IsTempAssistant(view.messages[i])}

(***************************************************************************)
(* C24: during one stream the chat view creates one synthetic assistant    *)
(* message, on the first delta, and every later delta changes the content  *)
(* of that message in place; the transcript never holds more than one      *)
(* message with a temp-assistant id, and that message is its last.         *)
(***************************************************************************)
C24_OneSyntheticAssistant ==
    /\ [](/\ Cardinality(TempAssistants) <= 1
          /\ \A i \in TempAssistants : i = Len(view.messages))
    /\ [][\A s \in Reqs :
            sub'[s].assistantMessage # sub[s].assistantMessage =>
                IF sub[s].assistantMessage = EmptyText
                THEN view'.messages =
                        Append(view.messages,
                               Message(Id("temp-assistant", s), "assistant",
                                       sub'[s].assistantMessage, <<>>))
                ELSE /\ TempAssistants = {Len(view.messages)}
                     /\ view'.messages =
                           [view.messages EXCEPT ![Len(view.messages)].content =
                               sub'[s].assistantMessage]]_vars

(***************************************************************************)
(* C25: the reader that a submission obtained on the response body is      *)
(* locked only while the read loop runs: every step that leaves the read   *)
(* loop (end of the stream, or a failure of a read or of the handling of a *)
(* chunk) releases the lock, so the lock is released before the            *)
(* submission reloads the conversation or finishes.                        *)
(***************************************************************************)
C25_ReaderReleased ==
    /\ [](\A s \in Reqs : sub[s].reader = "locked" <=> sub[s].pc = "reading")
    /\ [][\A s \in Reqs :
            sub[s].pc = "reading" /\ sub'[s].pc # "reading" =>
                sub'[s].reader = "released"]_vars

\* a submission whose read loop failed after the first fragment has
\* finished with the lock released
C25_Witness ==
    /\ sub[1].outcome = "failed"
    /\ sub[1].assistantMessage # EmptyText
    /\ sub[1].reader = "released"

(***************************************************************************)
(* Vocabulary of the properties of the part lists.                         *)
(***************************************************************************)
\* a part list of a request turn is not empty and starts with a text part
TextFirst(parts) == parts # <<>> /\ parts[1].type = "text"

(***************************************************************************)
(* C26: every part list that a normalization site produces is not empty   *)
(* and has a text part as its first element: the parts of the turns the    *)
(* composer of the chat view sends, the new turn and the replayed history, *)
(* and the parts of the messages the history loader of the assistant view  *)
(* builds from a response of the history endpoint.                         *)
(***************************************************************************)
C26_PartListsStartWithText ==
    /\ \A s \in Reqs : \A i \in 1..Len(sub[s].allMessages) :
          sub[s].allMessages[i].hasParts => TextFirst(sub[s].allMessages[i].parts)
    /\ HistoryRead =>
          /\ \A i \in 1..Len(lastRead.messages) :
                LET replayed ==
                        HistoryMessage(TransformMessages(lastRead.messages)[i])
                IN replayed.hasParts => TextFirst(replayed.parts)
          /\ \A i \in 1..Len(FormattedMessages(lastRead.messages)) :
                LET parts == FormattedMessages(lastRead.messages)[i].parts
                IN parts # <<>> /\ IsJTextPart(parts[1])

(***************************************************************************)
(* Vocabulary of the properties of the image embedding step.               *)
(***************************************************************************)
\* the latest turn of the body of request r
LatestTurn(r) == req[r].body.arr[Len(req[r].body.arr)]

\* request r has issued the write of a latest turn with image parts
SavesImages(r) ==
    /\ req[r].userWrite # "none"
    /\ LatestTurn(r).role = "user"
    /\ OriginalHasImages(LatestTurn(r))

\* the parts saved for a turn when Kept(u) is the URL saved for the image
\* string u, or NoUrl when the image is dropped
SavedWith(Kept(_), parts) ==
    Flatten([i \in 1..Len(parts) |->
                IF parts[i].type = "text" THEN <<TextPart(parts[i].text)>>
                ELSE IF Kept(ImageData(parts[i])) = NoUrl THEN <<>>
                ELSE <<ImageUrlPart(Kept(ImageData(parts[i])))>>])

\* a string is kept unchanged if it is a data URI or an absolute http(s)
\* URL, and dropped otherwise
KeptIfUri(u) ==
    IF \/ StartsWith(u, Prefix.data)
       \/ StartsWith(u, Prefix.http) \/ StartsWith(u, Prefix.https)
    THEN u ELSE NoUrl

\* a string is kept unchanged if it starts with 'data:image/', 'http://'
\* or 'https://'; a string of more than 100 characters, all of the base64
\* alphabet, is kept as a JPEG data URI; every other string is dropped
KeptIfImage(u) ==
    IF \/ StartsWith(u, Prefix.dataImage)
       \/ StartsWith(u, Prefix.http) \/ StartsWith(u, Prefix.https)
    THEN u
    ELSE IF /\ Len(u) > Base64MinLen
            /\ \A i \in 1..Len(u) :
                  u[i] \in (48..57) \cup (65..90) \cup (97..122) \cup {43, 47, 61}
    THEN Prefix.jpeg \o u
    ELSE NoUrl

C29_UserTurnBeforeAssistantTurn ==
    \A r \in Reqs :
        \A i, j \in MsgsOf(r) :
            msgs[i].role = "user" /\ msgs[j].role = "assistant" => i < j

(***************************************************************************)
(* C28: when an exchange of the view has succeeded and its response named  *)
(* a conversation in X-Conversation-Id, the next turn submitted from the   *)
(* view sends that conversation id, whatever id the view had sent before;  *)
(* so the next turn does not open another conversation.  The view is the   *)
(* one of the exchange: it still has a conversation open, the page has not *)
(* been loaded anew in between.                                            *)
(***************************************************************************)
C28_NextTurnSendsLastHeader ==
    [][\A s \in Reqs :
          /\ s > 1
          /\ view.conversationId # 0
          /\ sub[s].pc = "idle" /\ sub'[s].pc = "fetching"
          /\ sub[s - 1].outcome = "ok" /\ req[s - 1].header # 0
          => sub'[s].conversationId = req[s - 1].header]_vars

(***************************************************************************)
(* C30: whenever no history load is in flight, every message of the        *)
(* transcript is a stored message of the conversation that is selected;    *)
(* the transcript is empty when no conversation is selected.               *)
(***************************************************************************)
C30_TranscriptOfSelected ==
    load = {} =>
        \A i \in 1..Len(view.messages) :
            /\ view.conversationId # 0
            /\ view.messages[i].id.kind = "db"
            /\ msgs[view.messages[i].id.n].conversationId = view.conversationId

====
